---- MODULE Spec2Model ----
(***************************************************************************)
(* Model of the interrupt dispatch abstraction of metal/interrupt.h: the   *)
(* capability table (struct metal_interrupt_vtable), the controller handle *)
(* (struct metal_interrupt), the inline dispatch functions metal_interrupt_*)
(* and the controller directory metal_interrupt_get_controller.            *)
(*                                                                         *)
(* The inline functions are translated from the header.  The functions the *)
(* table's slots point to, the cross-hart timer entry point and the        *)
(* directory's body are defined by the controller drivers, which the header*)
(* only declares; they are modelled from the specification's contracts.    *)
(***************************************************************************)
EXTENDS Integers, Sequences, FiniteSets, TLC

\* ------------------------------------------------------------------ bounds
\* Interrupt ids a backend accepts are 0..MaxId; callers also pass MaxId + 1.
MaxId == 1
\* Threshold, priority and timer-compare values are 0..MaxValue.
MaxValue == 1
\* Hart ids are 0..MaxHart.
MaxHart == 1
\* Directory instance indices are 0..MaxIndex.
MaxIndex == 1

\* ------------------------------------------------------- program constants
NULL == 0

METAL_CPU_CONTROLLER == 0
METAL_CLINT_CONTROLLER == 1
METAL_CLIC_CONTROLLER == 2
METAL_PLIC_CONTROLLER == 3

METAL_DIRECT_MODE == 0
METAL_VECTOR_MODE == 1
METAL_SELECTIVE_VECTOR_MODE == 2
METAL_HARDWARE_VECTOR_MODE == 3

metal_intr_cntrl_type ==
    {METAL_CPU_CONTROLLER, METAL_CLINT_CONTROLLER,
     METAL_CLIC_CONTROLLER, METAL_PLIC_CONTROLLER}

metal_vector_mode ==
    {METAL_DIRECT_MODE, METAL_VECTOR_MODE,
     METAL_SELECTIVE_VECTOR_MODE, METAL_HARDWARE_VECTOR_MODE}

\* The slots of struct metal_interrupt_vtable, by member name.
Slots ==
    {"interrupt_init", "interrupt_register", "interrupt_enable",
     "interrupt_disable", "interrupt_vector_enable",
     "interrupt_vector_disable", "interrupt_get_threshold",
     "interrupt_set_threshold", "interrupt_get_priority",
     "interrupt_set_priority", "command_request", "mtimecmp_set"}

\* The capability groups a driver may implement on top of interrupt_init.
RegisterSlots == {"interrupt_register"}
EnableSlots == {"interrupt_enable", "interrupt_disable"}
VectorSlots == {"interrupt_vector_enable", "interrupt_vector_disable"}
ThresholdSlots == {"interrupt_get_threshold", "interrupt_set_threshold"}
PrioritySlots == {"interrupt_get_priority", "interrupt_set_priority"}
TimerSlots == {"command_request", "mtimecmp_set"}

\* ------------------------------------------------------------ value spaces
\* struct metal_interrupt objects (non-null addresses) and the pointers to
\* them a caller can hold.
Controllers == {1}
Handles == Controllers \cup {NULL}
\* The capability tables (static const objects) a handle's vtable can name.
VtRefs == {1}
\* The slot sets a driver may fill in.  Every member of the table is a
\* function pointer that is either set or null: a table with no member set,
\* and tables that set interrupt_init and one of the given groups.
Profiles(groups) == {{}} \cup {{"interrupt_init"} \cup g : g \in groups}

\* Tables of single-capability drivers.
DriverProfiles ==
    Profiles({RegisterSlots, EnableSlots, VectorSlots, ThresholdSlots,
              PrioritySlots, TimerSlots})

\* Tables of drivers that keep a handler registry for the ids they enable.
RegistryProfiles == Profiles({RegisterSlots \cup EnableSlots})

Ids == 0..MaxId
ArgIds == 0..(MaxId + 1)
Values == 0..MaxValue
Harts == 0..MaxHart
Indices == 0..MaxIndex
\* metal_interrupt_handler_t callbacks and their priv_data pointers.
Isrs == {1, 2}
PrivData == {1, 2}
\* Commands of command_request: the compare-value query and an unknown one.
Cmds == {"MTIMECMP_GET", "UNKNOWN"}

\* ----------------------------------------------------------------- results
Value(v) == [kind |-> "value", val |-> v]
Error(e) == [kind |-> e, val |-> 0]
Success == Value(0)
Void == [kind |-> "void", val |-> 0]
Fault == [kind |-> "fault", val |-> 0]

VARIABLES
    vtable,      \* controller -> its vtable member (a VtRef or NULL)
    tables,      \* VtRef -> the set of slots that are non-null in that table
    directory,   \* <<kind, index>> -> the registered handle or NULL
    priv,        \* controller -> the backend's private state
    call,        \* the latest operation: what was asked, done and returned
    halted,      \* the program has trapped
    initCalled,  \* history: controllers on which metal_interrupt_init was called
    lastReg,     \* history: the latest successful registration per id
    replaced,    \* history: ids whose registration replaced another callback
    lastTime     \* history: the latest successful compare value per hart

vars ==
    <<vtable, tables, directory, priv, call, halted,
      initCalled, lastReg, replaced, lastTime>>

history == <<initCalled, lastReg, replaced, lastTime>>

\* ------------------------------------------------ backend (driver) side
\* The private state a driver keeps for one controller, as constructed.
InitPriv ==
    [inited |-> FALSE,
     registry |-> [i \in Ids |-> << >>],
     enabled |-> {},
     vector |-> [i \in Ids |-> << >>],
     threshold |-> 0,
     priority |-> [i \in Ids |-> 0],
     mtimecmp |-> [h \in Harts |-> 0]]

\* What a slot's function hands back: the new private state and the result.
Outcome(p, ret) == [p |-> p, ret |-> ret]

\* Every slot but interrupt_init refuses to act before the controller is
\* initialised, and refuses arguments outside the backend's range; a
\* refused call changes nothing.
Checked(p, inRange, done) ==
    IF ~p.inited THEN Outcome(p, Error("InvalidHandle"))
    ELSE IF ~inRange THEN Outcome(p, Error("InvalidArgument"))
    ELSE done

interrupt_init(p) == Outcome([p EXCEPT !.inited = TRUE], Void)

interrupt_register(p, id, isr, priv_data) ==
    Checked(p, id \in Ids,
            Outcome([p EXCEPT !.registry[id] = <<isr, priv_data>>], Success))

interrupt_enable(p, id) ==
    Checked(p, id \in Ids,
            Outcome([p EXCEPT !.enabled = @ \cup {id}], Success))

interrupt_disable(p, id) ==
    Checked(p, id \in Ids,
            Outcome([p EXCEPT !.enabled = @ \ {id}], Success))

interrupt_vector_enable(p, id, mode) ==
    Checked(p, id \in Ids /\ mode \in metal_vector_mode,
            Outcome([p EXCEPT !.vector[id] = <<mode>>], Success))

interrupt_vector_disable(p, id) ==
    Checked(p, id \in Ids,
            Outcome([p EXCEPT !.vector[id] = << >>], Success))

interrupt_get_threshold(p) ==
    Checked(p, TRUE, Outcome(p, Value(p.threshold)))

interrupt_set_threshold(p, threshold) ==
    Checked(p, threshold \in Values,
            Outcome([p EXCEPT !.threshold = threshold], Success))

interrupt_get_priority(p, id) ==
    Checked(p, id \in Ids, Outcome(p, Value(p.priority[id])))

interrupt_set_priority(p, id, priority) ==
    Checked(p, id \in Ids /\ priority \in Values,
            Outcome([p EXCEPT !.priority[id] = priority], Success))

command_request(p, cmd, data) ==
    Checked(p, cmd = "MTIMECMP_GET" /\ data \in Harts,
            Outcome(p, Value(p.mtimecmp[data])))

mtimecmp_set(p, hartid, time) ==
    Checked(p, hartid \in Harts /\ time \in Values,
            Outcome([p EXCEPT !.mtimecmp[hartid] = time], Success))

\* The call through a non-null function pointer of the table.
SlotCall(slot, p, args) ==
    CASE slot = "interrupt_init" -> interrupt_init(p)
      [] slot = "interrupt_register" ->
            interrupt_register(p, args[1], args[2], args[3])
      [] slot = "interrupt_enable" -> interrupt_enable(p, args[1])
      [] slot = "interrupt_disable" -> interrupt_disable(p, args[1])
      [] slot = "interrupt_vector_enable" ->
            interrupt_vector_enable(p, args[1], args[2])
      [] slot = "interrupt_vector_disable" ->
            interrupt_vector_disable(p, args[1])
      [] slot = "interrupt_get_threshold" -> interrupt_get_threshold(p)
      [] slot = "interrupt_set_threshold" ->
            interrupt_set_threshold(p, args[1])
      [] slot = "interrupt_get_priority" ->
            interrupt_get_priority(p, args[1])
      [] slot = "interrupt_set_priority" ->
            interrupt_set_priority(p, args[1], args[2])
      [] slot = "command_request" -> command_request(p, args[1], args[2])
      [] slot = "mtimecmp_set" -> mtimecmp_set(p, args[1], args[2])

\* ------------------------------------------------------- dispatch (header)
\* Which null pointer the expression controller->vtable->slot(...) reads or
\* calls through, if any.
NullDeref(slot, controller) ==
    IF controller = NULL THEN "controller"
    ELSE IF vtable[controller] = NULL THEN "vtable"
    ELSE IF slot \notin tables[vtable[controller]] THEN "slot"
    ELSE "none"

\* What the build can make of a read or call through a null pointer: the
\* access traps, or it yields some value and the function returns it.
UndefinedOutcomes(slot) ==
    {Fault} \cup
    (IF slot = "interrupt_init" THEN {Void} ELSE {Value(v) : v \in {0, 1}})

\* What an operation leaves behind for the caller to see: the function asked
\* for, the handle given, the result, the functions it called (with the
\* arguments they received), the null pointer it went through and whether
\* the backend's private state changed.
CallRecord(op, controller, ret, invoked, deref, touched) ==
    [op |-> op, h |-> controller, ret |-> ret, invoked |-> invoked,
     deref |-> deref, touched |-> touched,
     preinit |-> IF controller \in Controllers
                 THEN ~initCalled[controller] ELSE TRUE]

\* return controller->vtable->slot(controller, args...);
Forward(op, slot, controller, args) ==
    /\ ~halted
    /\ LET deref == NullDeref(slot, controller) IN
       IF deref # "none"
       THEN \E out \in UndefinedOutcomes(slot) :
               /\ call' = CallRecord(op, controller, out, << >>, deref, FALSE)
               /\ halted' = (out = Fault)
               /\ priv' = priv
       ELSE LET r == SlotCall(slot, priv[controller], args) IN
               /\ call' = CallRecord(op, controller, r.ret,
                                     << <<slot, controller, args>> >>,
                                     deref, r.p # priv[controller])
               /\ halted' = FALSE
               /\ priv' = [priv EXCEPT ![controller] = r.p]
    /\ directory' = directory

\* Faulty variant: the call also clears the handle's vtable member.
DispatchRebinding(op, slot, controller, args) ==
    /\ Forward(op, slot, controller, args)
    /\ vtable' = [c \in Controllers |->
                     IF c = controller THEN NULL ELSE vtable[c]]
    /\ tables' = tables

Dispatch(op, slot, controller, args) ==
    /\ Forward(op, slot, controller, args)
    /\ UNCHANGED <<vtable, tables>>

metal_interrupt_init(controller) ==
    Dispatch("metal_interrupt_init", "interrupt_init", controller, << >>)

\* Faulty variant: handler and priv_data change places.
register_handler_swapped(controller, id, handler, priv_data) ==
    Dispatch("metal_interrupt_register_handler", "interrupt_register",
             controller, <<id, priv_data, handler>>)

metal_interrupt_register_handler(controller, id, handler, priv_data) ==
    Dispatch("metal_interrupt_register_handler", "interrupt_register",
             controller, <<id, handler, priv_data>>)

metal_interrupt_enable(controller, id) ==
    Dispatch("metal_interrupt_enable", "interrupt_enable", controller, <<id>>)

metal_interrupt_disable(controller, id) ==
    Dispatch("metal_interrupt_disable", "interrupt_disable", controller,
             <<id>>)

metal_interrupt_vector_enable(controller, id, mode) ==
    Dispatch("metal_interrupt_vector_enable", "interrupt_vector_enable",
             controller, <<id, mode>>)

metal_interrupt_set_threshold(controller, level) ==
    Dispatch("metal_interrupt_set_threshold", "interrupt_set_threshold",
             controller, <<level>>)

metal_interrupt_get_threshold(controller) ==
    Dispatch("metal_interrupt_get_threshold", "interrupt_get_threshold",
             controller, << >>)

metal_interrupt_set_priority(controller, id, priority) ==
    Dispatch("metal_interrupt_set_priority", "interrupt_set_priority",
             controller, <<id, priority>>)

metal_interrupt_get_priority(controller, id) ==
    Dispatch("metal_interrupt_get_priority", "interrupt_get_priority",
             controller, <<id>>)

\* Faulty variant: the call goes to the interrupt_disable member.
vector_disable_wrong_slot(controller, id) ==
    Dispatch("metal_interrupt_vector_disable", "interrupt_disable",
             controller, <<id>>)

metal_interrupt_vector_disable(controller, id) ==
    Dispatch("metal_interrupt_vector_disable", "interrupt_vector_disable",
             controller, <<id>>)

\* Faulty variant: data is not passed on.
command_request_drops_data(controller, cmd, data) ==
    Dispatch("_metal_interrupt_command_request", "command_request",
             controller, <<cmd, NULL>>)

_metal_interrupt_command_request(controller, cmd, data) ==
    Dispatch("_metal_interrupt_command_request", "command_request",
             controller, <<cmd, data>>)

\* The cross-hart timer entry point: the call through the table's
\* mtimecmp_set member (the header holds the member, not the caller).
timer_compare_set(controller, hartid, time) ==
    Dispatch("timer_compare_set", "mtimecmp_set", controller,
             <<hartid, time>>)

\* The dispatch functions of the header and the slot each one names.
OwnSlot ==
    [metal_interrupt_init |-> "interrupt_init",
     metal_interrupt_register_handler |-> "interrupt_register",
     metal_interrupt_enable |-> "interrupt_enable",
     metal_interrupt_disable |-> "interrupt_disable",
     metal_interrupt_vector_enable |-> "interrupt_vector_enable",
     metal_interrupt_set_threshold |-> "interrupt_set_threshold",
     metal_interrupt_get_threshold |-> "interrupt_get_threshold",
     metal_interrupt_set_priority |-> "interrupt_set_priority",
     metal_interrupt_get_priority |-> "interrupt_get_priority",
     metal_interrupt_vector_disable |-> "interrupt_vector_disable",
     _metal_interrupt_command_request |-> "command_request"]

FacadeOps == DOMAIN OwnSlot

\* ------------------------------------------------------------- directory
\* struct metal_interrupt* metal_interrupt_get_controller(cntrl, id)
\* Faulty variant: the instance index is ignored.
GetControllerFirstInstance(cntrl, id) ==
    IF <<cntrl, 0>> \in DOMAIN directory THEN directory[<<cntrl, 0>>]
    ELSE NULL

GetController(cntrl, id) ==
    IF <<cntrl, id>> \in DOMAIN directory THEN directory[<<cntrl, id>>]
    ELSE NULL

metal_interrupt_get_controller(cntrl, id) ==
    /\ ~halted
    /\ call' = [op |-> "metal_interrupt_get_controller", h |-> NULL,
                ret |-> Value(GetController(cntrl, id)), invoked |-> << >>,
                deref |-> "none", touched |-> FALSE, preinit |-> TRUE]
    /\ UNCHANGED <<vtable, tables, directory, priv, halted>>

\* ------------------------------------------------- handler invocation
\* A hardware event for an enabled id of an initialised controller: the
\* backend calls the registered callback once with (id, priv_data), and
\* calls nothing when the id has no entry.
Invoke(p, id) ==
    IF p.registry[id] = << >> THEN << >>
    ELSE << <<p.registry[id][1], id, p.registry[id][2]>> >>

Fire(controller, id) ==
    /\ ~halted
    /\ vtable[controller] # NULL
    /\ priv[controller].inited
    /\ id \in priv[controller].enabled
    /\ call' = [op |-> "fire", h |-> controller, ret |-> Void,
                invoked |-> Invoke(priv[controller], id),
                deref |-> "none", touched |-> FALSE, preinit |-> FALSE]
    /\ UNCHANGED <<vtable, tables, directory, priv, halted>>

\* ---------------------------------------------------------- construction
NoCall ==
    [op |-> "none", h |-> NULL, ret |-> Void, invoked |-> << >>,
     deref |-> "none", touched |-> FALSE, preinit |-> TRUE]

\* The directories setup can build: each controller is registered under at
\* most one (kind, index) pair, and no pair names two controllers.
Directories ==
    {d \in UNION {[D -> Controllers] :
                     D \in SUBSET (metal_intr_cntrl_type \X Indices)} :
        \A a, b \in DOMAIN d : d[a] = d[b] => a = b}

\* The controller registered as instance 0 of the CLINT kind.
BoardDirectory == [k \in {<<METAL_CLINT_CONTROLLER, 0>>} |-> 1]

\* A controller object is bound to a table or (not yet set up) to none.
InitWith(dirs, profiles) ==
    /\ tables \in [VtRefs -> profiles]
    /\ vtable \in [Controllers -> VtRefs \cup {NULL}]
    /\ directory \in dirs
    /\ priv = [c \in Controllers |-> InitPriv]
    /\ call = NoCall
    /\ halted = FALSE
    /\ initCalled = [c \in Controllers |-> FALSE]
    /\ lastReg = [c \in Controllers |-> [i \in Ids |-> << >>]]
    /\ replaced = [c \in Controllers |-> {}]
    /\ lastTime = [c \in Controllers |-> [h \in Harts |-> << >>]]

Init == InitWith({BoardDirectory}, DriverProfiles)

\* ------------------------------------------------------------ behaviours
\* The latest call reached the backend and the backend reported success.
Reached == call'.deref = "none" /\ call'.ret = Success

InitStep ==
    \E c \in Handles :
        /\ metal_interrupt_init(c)
        /\ initCalled' = IF c \in Controllers
                         THEN [initCalled EXCEPT ![c] = TRUE]
                         ELSE initCalled
        /\ UNCHANGED <<lastReg, replaced, lastTime>>

RegisterStep ==
    \E c \in Handles, id \in ArgIds, isr \in Isrs, pd \in PrivData :
        /\ metal_interrupt_register_handler(c, id, isr, pd)
        /\ lastReg' = IF Reached
                      THEN [lastReg EXCEPT ![c][id] = <<isr, pd>>]
                      ELSE lastReg
        /\ UNCHANGED <<initCalled, replaced, lastTime>>

\* The same step, also noting whether it replaced another callback.
ReRegisterStep ==
    \E c \in Handles, id \in ArgIds, isr \in Isrs, pd \in PrivData :
        /\ metal_interrupt_register_handler(c, id, isr, pd)
        /\ lastReg' = IF Reached
                      THEN [lastReg EXCEPT ![c][id] = <<isr, pd>>]
                      ELSE lastReg
        /\ replaced' = IF Reached
                       THEN [replaced EXCEPT ![c] =
                               IF /\ lastReg[c][id] # << >>
                                  /\ lastReg[c][id][1] # isr
                               THEN @ \cup {id} ELSE @ \ {id}]
                       ELSE replaced
        /\ UNCHANGED <<initCalled, lastTime>>

EnableStep ==
    \E c \in Handles, id \in ArgIds :
        metal_interrupt_enable(c, id) /\ UNCHANGED history

DisableStep ==
    \E c \in Handles, id \in ArgIds :
        metal_interrupt_disable(c, id) /\ UNCHANGED history

VectorEnableStep ==
    \E c \in Handles, id \in ArgIds, mode \in metal_vector_mode :
        metal_interrupt_vector_enable(c, id, mode) /\ UNCHANGED history

VectorDisableStep ==
    \E c \in Handles, id \in ArgIds :
        metal_interrupt_vector_disable(c, id) /\ UNCHANGED history

SetThresholdStep ==
    \E c \in Handles, level \in Values :
        metal_interrupt_set_threshold(c, level) /\ UNCHANGED history

GetThresholdStep ==
    \E c \in Handles : metal_interrupt_get_threshold(c) /\ UNCHANGED history

SetPriorityStep ==
    \E c \in Handles, id \in ArgIds, priority \in Values :
        metal_interrupt_set_priority(c, id, priority) /\ UNCHANGED history

GetPriorityStep ==
    \E c \in Handles, id \in ArgIds :
        metal_interrupt_get_priority(c, id) /\ UNCHANGED history

CommandRequestStep ==
    \E c \in Handles, cmd \in Cmds, data \in Harts :
        _metal_interrupt_command_request(c, cmd, data) /\ UNCHANGED history

TimerCompareSetStep ==
    \E c \in Handles, hartid \in Harts, time \in Values :
        /\ timer_compare_set(c, hartid, time)
        /\ lastTime' = IF Reached
                       THEN [lastTime EXCEPT ![c][hartid] = <<time>>]
                       ELSE lastTime
        /\ UNCHANGED <<initCalled, lastReg, replaced>>

LookupStep ==
    \E cntrl \in metal_intr_cntrl_type, id \in 0..(MaxIndex + 1) :
        metal_interrupt_get_controller(cntrl, id) /\ UNCHANGED history

FireStep ==
    \E c \in Controllers, id \in Ids : Fire(c, id) /\ UNCHANGED history

\* Every dispatch function on every handle.
Next ==
    \/ InitStep
    \/ RegisterStep
    \/ EnableStep
    \/ DisableStep
    \/ VectorEnableStep
    \/ VectorDisableStep
    \/ SetThresholdStep
    \/ GetThresholdStep
    \/ SetPriorityStep
    \/ GetPriorityStep
    \/ CommandRequestStep
    \/ TimerCompareSetStep

Spec == Init /\ [][Next]_vars

\* The handler registry with the hardware events that run its callbacks.
InitRegistry == InitWith({BoardDirectory}, RegistryProfiles)

NextRegistry ==
    \/ InitStep
    \/ ReRegisterStep
    \/ EnableStep
    \/ DisableStep
    \/ FireStep

SpecRegistry == InitRegistry /\ [][NextRegistry]_vars

\* The directory, over every directory setup can build.
InitDirectory == InitWith(Directories, DriverProfiles)

NextDirectory == LookupStep

SpecDirectory == InitDirectory /\ [][NextDirectory]_vars

\* ---------------------------------------------------------------- claims
Bound(c) == c \in Controllers /\ vtable[c] # NULL
Present(slot, c) == Bound(c) /\ slot \in tables[vtable[c]]
ErrorKinds ==
    {"UnsupportedOperation", "InvalidHandle", "InvalidArgument",
     "BackendFailure"}

\* C1: a dispatch function called on a handle whose table leaves that
\* function's slot null fails with UnsupportedOperation, without calling or
\* reading through the null slot.
C1_AbsentSlotIsUnsupported ==
    (/\ call.op \in FacadeOps
     /\ Bound(call.h)
     /\ ~Present(OwnSlot[call.op], call.h))
    => (/\ call.ret = Error("UnsupportedOperation")
        /\ call.deref = "none"
        /\ call.invoked = << >>)

\* C2: a dispatch function called on a null handle, or on a handle with no
\* table bound, yields a detectable error and goes through no null pointer.
C2_UnboundHandleIsAnError ==
    (call.op \in FacadeOps /\ ~Bound(call.h))
    => (call.ret.kind \in ErrorKinds /\ call.deref = "none")

\* C3: every operation other than init that is called on a controller before
\* init was called on it returns an error and does not succeed.
C3_PreInitCallsFail ==
    (/\ call.op \in (FacadeOps \ {"metal_interrupt_init"})
                       \cup {"timer_compare_set"}
     /\ Bound(call.h)
     /\ call.preinit)
    => call.ret.kind \in ErrorKinds

\* The part of C3 that the backend decides: a call made before init that
\* reaches the backend is refused with InvalidHandle and changes nothing.
PreInitRefusedByBackend ==
    (/\ call.op \in (FacadeOps \ {"metal_interrupt_init"})
                       \cup {"timer_compare_set"}
     /\ Bound(call.h)
     /\ call.preinit
     /\ call.deref = "none")
    => (call.ret = Error("InvalidHandle") /\ ~call.touched)

\* What forwarding is: the slot named by the function is called once with
\* the same handle and the caller's arguments, its result is the call's
\* result, its effect on the backend's state is the call's only effect.
Forwarded(op, slot, c, args) ==
    LET r == SlotCall(slot, priv[c], args) IN
    /\ call'.op = op
    /\ call'.h = c
    /\ call'.invoked = << <<slot, c, args>> >>
    /\ call'.ret = r.ret
    /\ priv' = [priv EXCEPT ![c] = r.p]
    /\ ~halted'
    /\ UNCHANGED <<vtable, tables, directory>>

Forwards(op, c, A, args) == A => Forwarded(op, OwnSlot[op], c, args)

\* The latest step was a call of op on c, whose table has op's slot.
Called(op, c) == call'.op = op /\ call'.h = c /\ Present(OwnSlot[op], c)

ForwardsAll(c) ==
    /\ Called("metal_interrupt_init", c) =>
          Forwards("metal_interrupt_init", c, metal_interrupt_init(c), << >>)
    /\ Called("metal_interrupt_get_threshold", c) =>
          Forwards("metal_interrupt_get_threshold", c,
                   metal_interrupt_get_threshold(c), << >>)
    /\ Called("metal_interrupt_set_threshold", c) =>
          \A level \in Values :
             Forwards("metal_interrupt_set_threshold", c,
                      metal_interrupt_set_threshold(c, level), <<level>>)
    /\ Called("_metal_interrupt_command_request", c) =>
          \A cmd \in Cmds, data \in Harts :
             Forwards("_metal_interrupt_command_request", c,
                      _metal_interrupt_command_request(c, cmd, data),
                      <<cmd, data>>)
    /\ Called("metal_interrupt_enable", c) =>
          \A id \in ArgIds :
             Forwards("metal_interrupt_enable", c,
                      metal_interrupt_enable(c, id), <<id>>)
    /\ Called("metal_interrupt_disable", c) =>
          \A id \in ArgIds :
             Forwards("metal_interrupt_disable", c,
                      metal_interrupt_disable(c, id), <<id>>)
    /\ Called("metal_interrupt_vector_disable", c) =>
          \A id \in ArgIds :
             Forwards("metal_interrupt_vector_disable", c,
                      metal_interrupt_vector_disable(c, id), <<id>>)
    /\ Called("metal_interrupt_get_priority", c) =>
          \A id \in ArgIds :
             Forwards("metal_interrupt_get_priority", c,
                      metal_interrupt_get_priority(c, id), <<id>>)
    /\ Called("metal_interrupt_vector_enable", c) =>
          \A id \in ArgIds, mode \in metal_vector_mode :
             Forwards("metal_interrupt_vector_enable", c,
                      metal_interrupt_vector_enable(c, id, mode),
                      <<id, mode>>)
    /\ Called("metal_interrupt_set_priority", c) =>
          \A id \in ArgIds, priority \in Values :
             Forwards("metal_interrupt_set_priority", c,
                      metal_interrupt_set_priority(c, id, priority),
                      <<id, priority>>)
    /\ Called("metal_interrupt_register_handler", c) =>
          \A id \in ArgIds, isr \in Isrs, pd \in PrivData :
             Forwards("metal_interrupt_register_handler", c,
                      metal_interrupt_register_handler(c, id, isr, pd),
                      <<id, isr, pd>>)

\* C4: a dispatch function whose slot is present calls exactly that slot,
\* once, with the same handle and the caller's arguments, returns the
\* backend's result unchanged and changes nothing else.
C4_PresentSlotIsForwarded == [][\A c \in Controllers : ForwardsAll(c)]_vars

C4_Witness ==
    /\ call.op = "metal_interrupt_set_priority"
    /\ call.deref = "none"
    /\ call.invoked = << <<"interrupt_set_priority", 1, <<1, MaxValue>>>> >>
    /\ call.ret = Success
    /\ call.touched

\* C5: on a backend without priority support get_priority and set_priority
\* return UnsupportedOperation and leave the backend's private state as it
\* was.
C5_NoPriorityIsUnsupported ==
    (/\ call.op \in {"metal_interrupt_get_priority",
                     "metal_interrupt_set_priority"}
     /\ Bound(call.h)
     /\ PrioritySlots \cap tables[vtable[call.h]] = {})
    => (call.ret = Error("UnsupportedOperation") /\ ~call.touched)

C7_LookupFindsRegistered ==
    [][\A cntrl \in metal_intr_cntrl_type, id \in 0..(MaxIndex + 1) :
          (/\ call'.op = "metal_interrupt_get_controller"
           /\ metal_interrupt_get_controller(cntrl, id))
          => /\ directory' = directory
             /\ ~halted'
             /\ call'.ret.kind = "value"
             /\ \A c \in Controllers :
                   (<<cntrl, id>> \in DOMAIN directory
                    /\ directory[<<cntrl, id>>] = c)
                   <=> call'.ret.val = c
             /\ <<cntrl, id>> \notin DOMAIN directory
                   <=> call'.ret.val = NULL]_vars

C7_Witness ==
    /\ call.op = "metal_interrupt_get_controller"
    /\ call.ret = Value(1)
    /\ \E k \in DOMAIN directory : k[2] = MaxIndex /\ directory[k] = 1

\* C8: an event for an id runs exactly the callback of the latest
\* registration for that id, once, with (id, priv_data) of that
\* registration; earlier registrations of the id run no more and other ids
\* keep theirs.
C8_LastRegistrationRuns ==
    [][\A c \in Controllers, id \in Ids :
          (/\ call'.op = "fire"
           /\ Fire(c, id)
           /\ lastReg[c][id] # << >>)
          => call'.invoked =
                << <<lastReg[c][id][1], id, lastReg[c][id][2]>> >>]_vars

C8_Witness ==
    /\ call.op = "fire"
    /\ call.invoked = << <<2, 0, 2>> >>
    /\ 0 \in replaced[1]
    /\ lastReg[1][1] = <<1, 1>>

\* The part of C9 about controllers with vectored modes: neither call
\* touches the enabled set, and after vector_disable the id's vector state
\* is the initial one.
VectorCallKeeps(c, id, disable) ==
    /\ priv'[c].enabled = priv[c].enabled
    /\ disable => priv'[c].vector[id] = InitPriv.vector[id]

\* The part of C9 about controllers without vectored modes.
VectorCallRefused(c) ==
    /\ call'.ret = Error("UnsupportedOperation")
    /\ priv' = priv

VectorCall(c, id, disable) ==
    IF VectorSlots \subseteq tables[vtable[c]]
    THEN VectorCallKeeps(c, id, disable)
    ELSE VectorCallRefused(c)

\* C9: with vectored modes, vector_enable then vector_disable returns the
\* id to its initial vector state and neither changes its enabled state;
\* without them both calls fail with UnsupportedOperation and change nothing.
C9_VectorModeRoundTrip ==
    [][\A c \in Controllers, id \in Ids :
          Bound(c) =>
            /\ \A mode \in metal_vector_mode :
                  (/\ call'.op = "metal_interrupt_vector_enable"
                   /\ metal_interrupt_vector_enable(c, id, mode))
                  => VectorCall(c, id, FALSE)
            /\ (/\ call'.op = "metal_interrupt_vector_disable"
                /\ metal_interrupt_vector_disable(c, id))
               => VectorCall(c, id, TRUE)]_vars

\* C10: no operation changes a handle's vtable member or the slots of a
\* table.
C10_VtableIsImmutable == [][vtable' = vtable /\ tables' = tables]_vars

C10_Witness ==
    /\ call.op = "metal_interrupt_register_handler"
    /\ call.touched
    /\ vtable[call.h] = 1
    /\ tables[1] = {"interrupt_init"} \cup RegisterSlots

====
